---- MODULE Spec2Model ----
(***************************************************************************)
(* Contacts API of the gewe client library (src/api/contacts_api.rs).      *)
(*                                                                         *)
(* Every public function builds a JSON params object with json!, hands it  *)
(* together with a fixed route to util::gewe_post_json and returns what    *)
(* that call returns.  A call is modelled as one asynchronous task: the    *)
(* step up to the await (arguments -> params -> request handed to the      *)
(* transport) and the step that resumes it (transport failure, or a        *)
(* response body that is parsed).  Several tasks run interleaved.          *)
(*                                                                         *)
(* crate::util::gewe_post_json and crate::user::Wxid are not part of       *)
(* contacts_api.rs; they are modelled from the specification (request      *)
(* executor, identifier validator).                                        *)
(*                                                                         *)
(* JSON values are TLA+ values: an object is a record, an array a          *)
(* sequence, a string a string; identifiers, whose characters matter to    *)
(* the format check, are sequences of one-character strings.               *)
(***************************************************************************)
EXTENDS Naturals, Sequences, FiniteSets, TLC

VARIABLES pc, held, src, rejected, op, args, sent, reply, result

vars == <<pc, held, src, rejected, op, args, sent, reply, result>>

(***************************************************************************)
(* Bounds and input domains                                                *)
(***************************************************************************)

\* Longest Vec<Wxid> a caller builds.
MaxWxids == 2

\* Longest Vec<String> of phone numbers a caller passes.
MaxPhones == 2

\* Concurrently running calls.
Procs == {"call_a", "call_b"}

Apps == {"app_1", "app_2"}

Keywords == {"1234567", "alice"}

Scenes == {3, 15}

Options == {2, 4}

Tickets == {"v3_x"}

Contents == {"hello"}

Remarks == {"boss", ""}

Phones == {"1234567", "7654321"}

Bools == {TRUE, FALSE}

SeqsUpTo(S, n) == UNION {[1..k -> S] : k \in 0..n}

(***************************************************************************)
(* crate::user::Wxid: the validated identifier                             *)
(***************************************************************************)

Lower ==
    {"a", "b", "c", "d", "e", "f", "g", "h", "i", "j", "k", "l", "m",
     "n", "o", "p", "q", "r", "s", "t", "u", "v", "w", "x", "y", "z"}

Upper ==
    {"A", "B", "C", "D", "E", "F", "G", "H", "I", "J", "K", "L", "M",
     "N", "O", "P", "Q", "R", "S", "T", "U", "V", "W", "X", "Y", "Z"}

Digit == {"0", "1", "2", "3", "4", "5", "6", "7", "8", "9"}

AlphaNumeric == Lower \cup Upper \cup Digit

WxidPrefix == <<"w", "x", "i", "d", "_">>

\* Strings a caller may hand to Wxid::try_from: two well-formed ones (one of
\* mixed case) and malformed ones (no prefix, upper-case prefix, leading
\* blank, trailing blank, a non-alphanumeric character, the empty string).
WxidInputs ==
    { WxidPrefix \o <<"a", "1">>,
      WxidPrefix \o <<"Z", "b">>,
      <<"a", "1">>,
      <<"W", "X", "I", "D", "_", "a", "1">>,
      <<" ">> \o WxidPrefix \o <<"a", "1">>,
      WxidPrefix \o <<"a", "1", " ">>,
      WxidPrefix \o <<"a", "-">>,
      <<>> }

\* The identifier format: the prefix followed by an alphanumeric suffix.
WxidFormat(s) ==
    /\ Len(s) > Len(WxidPrefix)
    /\ SubSeq(s, 1, Len(WxidPrefix)) = WxidPrefix
    /\ \A i \in (Len(WxidPrefix) + 1)..Len(s) : s[i] \in AlphaNumeric

\* Wxid::try_from(s): a validated identifier holding s, or a format error.
Wxid_try_from(s) ==
    IF WxidFormat(s)
    THEN [ok |-> TRUE, wxid |-> [inner |-> s]]
    ELSE [ok |-> FALSE, error |-> [kind |-> "Validation"]]

\* The identifier's string representation.
Wxid_as_str(w) == w.inner

\* impl Serialize for Wxid: the identifier as a JSON string.
Wxid_to_json(w) == Wxid_as_str(w)

(***************************************************************************)
(* Option<Value> and Result<Value, Box<dyn Error>>                         *)
(***************************************************************************)

Some(v) == [some |-> TRUE, v |-> v]

Ok(v) == [tag |-> "Ok", value |-> v]

Err(e) == [tag |-> "Err", error |-> e]

Pending == [tag |-> "Pending"]

NoReply == [kind |-> "none"]

NoArgs == [none |-> TRUE]

(***************************************************************************)
(* crate::util::gewe_post_json: the request executor                       *)
(***************************************************************************)

TransportCauses == {"connection refused", "timeout", "tls failure"}

\* Response bodies the remote (or a mock transport) may deliver: JSON
\* documents with different embedded status codes and with none, and
\* bodies that are not JSON.
ResponseBodies ==
    { "{\"ret\":200,\"msg\":\"ok\"}",
      "{\"ret\":500,\"msg\":\"fail\"}",
      "{\"total\":0}",
      "<html>502 Bad Gateway</html>",
      "" }

\* Parsing of a response body as JSON.
ParseJson(text) ==
    CASE text = "{\"ret\":200,\"msg\":\"ok\"}" ->
           [ok |-> TRUE, value |-> [ret |-> 200, msg |-> "ok"]]
      [] text = "{\"ret\":500,\"msg\":\"fail\"}" ->
           [ok |-> TRUE, value |-> [ret |-> 500, msg |-> "fail"]]
      [] text = "{\"total\":0}" ->
           [ok |-> TRUE, value |-> [total |-> 0]]
      [] OTHER -> [ok |-> FALSE]

\* The body put on the wire for an optional payload.
RequestBody(payload) == IF payload.some THEN payload.v ELSE [absent |-> TRUE]

\* First half of gewe_post_json, up to the await of the round trip: one
\* POST of the payload to the route.
gewe_post_json_send(p, call) ==
    /\ sent' = [sent EXCEPT ![p] =
                  Append(@, [method |-> "POST",
                             route  |-> call.route,
                             body   |-> RequestBody(call.payload)])]
    /\ pc' = [pc EXCEPT ![p] = "awaiting"]

\* Second half of gewe_post_json: what the round trip's outcome becomes.
gewe_post_json_result(r) ==
    IF r.kind = "failure"
    THEN Err([kind |-> "Transport", cause |-> r.cause])
    ELSE LET j == ParseJson(r.text)
         IN  IF j.ok THEN Ok(j.value) ELSE Err([kind |-> "Decode"])

(***************************************************************************)
(* contacts_api.rs: route and params of every public function              *)
(***************************************************************************)

ContactOperationTypes == {"Add", "Remove"}

\* #[repr(u32)] enum ContactOperationType { Add = 1, Remove = 2 }, `op as u32`
ContactOperationType_as_u32(o) == CASE o = "Add" -> 1 [] o = "Remove" -> 2

\* Variant: the cached endpoint's route pasted into the uncached function.
fetch_contacts_list_call_cache_route(app_id) ==
    [route   |-> "/contacts/fetchContactsListCache",
     payload |-> Some([appId |-> app_id])]

fetch_contacts_list_call(app_id) ==
    [route   |-> "/contacts/fetchContactsList",
     payload |-> Some([appId |-> app_id])]

fetch_contacts_list_cache_call(app_id) ==
    [route   |-> "/contacts/fetchContactsListCache",
     payload |-> Some([appId |-> app_id])]

\* Variant: the keyword sent under the parameter's own name.
search_friend_call_keyword_field(app_id, keyword) ==
    [route   |-> "/contacts/search",
     payload |-> Some([appId |-> app_id, keyword |-> keyword])]

search_friend_call(app_id, keyword) ==
    [route   |-> "/contacts/search",
     payload |-> Some([appId |-> app_id, contactsInfo |-> keyword])]

search_add_call(app_id, scene, option, v3, v4, content) ==
    [route   |-> "/contacts/search",
     payload |-> Some([appId |-> app_id, scene |-> scene, option |-> option,
                       v3 |-> v3, v4 |-> v4, content |-> content])]

delete_friend_call(app_id, wxid) ==
    [route   |-> "/contacts/deleteFriend",
     payload |-> Some([appId |-> app_id, wxid |-> Wxid_to_json(wxid)])]

upload_phone_contacts_call(app_id, phones, o) ==
    [route   |-> "/contacts/uploadPhoneAddressList",
     payload |-> Some([appId |-> app_id, phones |-> phones,
                       opType |-> ContactOperationType_as_u32(o)])]

LowerOf ==
    [A |-> "a", B |-> "b", C |-> "c", D |-> "d", E |-> "e", F |-> "f",
     G |-> "g", H |-> "h", I |-> "i", J |-> "j", K |-> "k", L |-> "l",
     M |-> "m", N |-> "n", O |-> "o", P |-> "p", Q |-> "q", R |-> "r",
     S |-> "s", T |-> "t", U |-> "u", V |-> "v", W |-> "w", X |-> "x",
     Y |-> "y", Z |-> "z"]

ToLowercase(s) == [i \in 1..Len(s) |-> IF s[i] \in Upper THEN LowerOf[s[i]] ELSE s[i]]

\* Variant: the identifier lower-cased before it is embedded.
set_friend_only_chat_call_lowercase(app_id, wxid, only_chat) ==
    [route   |-> "/contacts/setFriendPermissions",
     payload |-> Some([appId |-> app_id, wxid |-> ToLowercase(Wxid_to_json(wxid)),
                       onlyChat |-> only_chat])]

set_friend_only_chat_call(app_id, wxid, only_chat) ==
    [route   |-> "/contacts/setFriendPermissions",
     payload |-> Some([appId |-> app_id, wxid |-> Wxid_to_json(wxid),
                       onlyChat |-> only_chat])]

\* Variant: the route of the function above pasted into this one.
set_friend_remark_call_permissions_route(app_id, wxid, remark) ==
    [route   |-> "/contacts/setFriendPermissions",
     payload |-> Some([appId |-> app_id, wxid |-> Wxid_to_json(wxid),
                       remark |-> remark])]

set_friend_remark_call(app_id, wxid, remark) ==
    [route   |-> "/contacts/setFriendRemark",
     payload |-> Some([appId |-> app_id, wxid |-> Wxid_to_json(wxid),
                       remark |-> remark])]

\* "wxids": vec![wxid]
get_brief_single_call(app_id, wxid) ==
    [route   |-> "/contacts/getBriefInfo",
     payload |-> Some([appId |-> app_id, wxids |-> <<Wxid_to_json(wxid)>>])]

\* s without the repetitions of its elements, first occurrences kept.
Dedup(s) ==
    LET ix == SelectSeq([i \in 1..Len(s) |-> <<i, s[i]>>],
                        LAMBDA e : \A j \in 1..(e[1] - 1) : s[j] # e[2])
    IN  [k \in 1..Len(ix) |-> ix[k][2]]

\* Variant: the identifiers de-duplicated before they are sent.
get_brief_list_call_dedup(app_id, wxids) ==
    [route   |-> "/contacts/getBriefInfo",
     payload |-> Some([appId |-> app_id,
                       wxids |-> Dedup([i \in 1..Len(wxids) |-> Wxid_to_json(wxids[i])])])]

\* "wxids": wxids, each element serialized in place
get_brief_list_call(app_id, wxids) ==
    [route   |-> "/contacts/getBriefInfo",
     payload |-> Some([appId |-> app_id,
                       wxids |-> [i \in 1..Len(wxids) |-> Wxid_to_json(wxids[i])]])]

\* Variant: the function inspects the embedded status, as its documentation
\* examples do, and reports anything but 200 as an error.
contacts_api_return_checked_ret(r) ==
    IF r.tag = "Ok" /\ "ret" \in DOMAIN r.value /\ r.value.ret # 200
    THEN Err([kind |-> "Remote"])
    ELSE r

\* Variant: .await.unwrap(), which panics on an error.
contacts_api_return_unwrap(r) == IF r.tag = "Err" THEN [tag |-> "Panic"] ELSE r

\* Variant: .await.unwrap_or_default(), which turns an error into Value::Null.
contacts_api_return_or_default(r) == IF r.tag = "Err" THEN Ok([null |-> TRUE]) ELSE r

\* The tail expression of every public function: the awaited
\* Result<Value, Box<dyn Error>> is the function's own result.
contacts_api_return(r) == r

(***************************************************************************)
(* State                                                                   *)
(*   pc        where each task is: idle (the caller prepares arguments),   *)
(*             invalid (Wxid::try_from failed), awaiting (suspended in the *)
(*             round trip), done (the function returned)                   *)
(*   held      the Wxid values the caller has constructed                  *)
(*   src       the strings they were constructed from, in the same order   *)
(*   rejected  the string Wxid::try_from refused                           *)
(*   op, args  the public function called and its arguments               *)
(*   sent      the requests the call handed to the transport               *)
(*   reply     what the transport delivered                                *)
(*   result    what the caller got                                         *)
(***************************************************************************)

Init ==
    /\ pc = [p \in Procs |-> "idle"]
    /\ held = [p \in Procs |-> <<>>]
    /\ src = [p \in Procs |-> <<>>]
    /\ rejected = [p \in Procs |-> <<>>]
    /\ op = [p \in Procs |-> "none"]
    /\ args = [p \in Procs |-> NoArgs]
    /\ sent = [p \in Procs |-> <<>>]
    /\ reply = [p \in Procs |-> NoReply]
    /\ result = [p \in Procs |-> Pending]

\* The caller constructs an identifier: let wxid = Wxid::try_from(s)
\* On failure the caller has a validation error and no Wxid to call with.
Wxid_construct(p) ==
    /\ pc[p] = "idle"
    /\ Len(held[p]) < MaxWxids
    /\ \E s \in WxidInputs :
         LET r == Wxid_try_from(s)
         IN  IF r.ok
             THEN /\ held' = [held EXCEPT ![p] = Append(@, r.wxid)]
                  /\ src' = [src EXCEPT ![p] = Append(@, s)]
                  /\ UNCHANGED <<pc, rejected, result>>
             ELSE /\ pc' = [pc EXCEPT ![p] = "invalid"]
                  /\ rejected' = [rejected EXCEPT ![p] = s]
                  /\ result' = [result EXCEPT ![p] = Err(r.error)]
                  /\ UNCHANGED <<held, src>>
    /\ UNCHANGED <<op, args, sent, reply>>

\* Entry of a public function up to its await.  ix lists the positions in
\* held of the identifiers passed to the call; the caller's other
\* identifiers go out of scope.
Enter(p, name, a, call, ix) ==
    /\ op' = [op EXCEPT ![p] = name]
    /\ args' = [args EXCEPT ![p] = a]
    /\ held' = [held EXCEPT ![p] = [k \in 1..Len(ix) |-> held[p][ix[k]]]]
    /\ src' = [src EXCEPT ![p] = [k \in 1..Len(ix) |-> src[p][ix[k]]]]
    /\ gewe_post_json_send(p, call)
    /\ UNCHANGED <<rejected, reply, result>>

fetch_contacts_list(p) ==
    /\ pc[p] = "idle"
    /\ \E app_id \in Apps :
         Enter(p, "fetch_contacts_list", [app_id |-> app_id],
               fetch_contacts_list_call(app_id),
               <<>>)

fetch_contacts_list_cache(p) ==
    /\ pc[p] = "idle"
    /\ \E app_id \in Apps :
         Enter(p, "fetch_contacts_list_cache", [app_id |-> app_id],
               fetch_contacts_list_cache_call(app_id),
               <<>>)

search_friend(p) ==
    /\ pc[p] = "idle"
    /\ \E app_id \in Apps, keyword \in Keywords :
         Enter(p, "search_friend", [app_id |-> app_id, keyword |-> keyword],
               search_friend_call(app_id, keyword),
               <<>>)

search_add(p) ==
    /\ pc[p] = "idle"
    /\ \E app_id \in Apps, scene \in Scenes, option \in Options,
          v3 \in Tickets, v4 \in Tickets, content \in Contents :
         Enter(p, "search_add",
               [app_id |-> app_id, scene |-> scene, option |-> option,
                v3 |-> v3, v4 |-> v4, content |-> content],
               search_add_call(app_id, scene, option, v3, v4, content),
               <<>>)

\* Variant: wxid: &str, any string of the caller's is embedded.
delete_friend_unvalidated(p) ==
    /\ pc[p] = "idle"
    /\ \E app_id \in Apps, s \in WxidInputs :
         Enter(p, "delete_friend", [app_id |-> app_id, wxid |-> [inner |-> s]],
               delete_friend_call(app_id, [inner |-> s]),
               <<>>)

\* wxid: &Wxid, so only a constructed identifier can be passed.
delete_friend(p) ==
    /\ pc[p] = "idle"
    /\ \E app_id \in Apps, i \in DOMAIN held[p] :
         Enter(p, "delete_friend", [app_id |-> app_id, wxid |-> held[p][i]],
               delete_friend_call(app_id, held[p][i]),
               <<i>>)

upload_phone_contacts(p) ==
    /\ pc[p] = "idle"
    /\ \E app_id \in Apps, phones \in SeqsUpTo(Phones, MaxPhones),
          o \in ContactOperationTypes :
         Enter(p, "upload_phone_contacts",
               [app_id |-> app_id, phones |-> phones, op |-> o],
               upload_phone_contacts_call(app_id, phones, o),
               <<>>)

set_friend_only_chat(p) ==
    /\ pc[p] = "idle"
    /\ \E app_id \in Apps, i \in DOMAIN held[p], only_chat \in Bools :
         Enter(p, "set_friend_only_chat",
               [app_id |-> app_id, wxid |-> held[p][i], only_chat |-> only_chat],
               set_friend_only_chat_call(app_id, held[p][i], only_chat),
               <<i>>)

\* Variant: the params object lives in a buffer shared by all calls, so a
\* request still in flight is overwritten by the next call's.
set_friend_remark_shared_buffer(p) ==
    /\ pc[p] = "idle"
    /\ \E app_id \in Apps, i \in DOMAIN held[p], remark \in Remarks :
         LET call == set_friend_remark_call(app_id, held[p][i], remark)
             req  == [method |-> "POST", route |-> call.route,
                      body |-> RequestBody(call.payload)]
         IN  /\ op' = [op EXCEPT ![p] = "set_friend_remark"]
             /\ args' = [args EXCEPT ![p] =
                           [app_id |-> app_id, wxid |-> held[p][i], remark |-> remark]]
             /\ held' = [held EXCEPT ![p] = <<held[p][i]>>]
             /\ src' = [src EXCEPT ![p] = <<src[p][i]>>]
             /\ sent' = [q \in Procs |->
                           IF q = p \/ pc[q] = "awaiting" THEN <<req>> ELSE sent[q]]
             /\ pc' = [pc EXCEPT ![p] = "awaiting"]
             /\ UNCHANGED <<rejected, reply, result>>

set_friend_remark(p) ==
    /\ pc[p] = "idle"
    /\ \E app_id \in Apps, i \in DOMAIN held[p], remark \in Remarks :
         Enter(p, "set_friend_remark",
               [app_id |-> app_id, wxid |-> held[p][i], remark |-> remark],
               set_friend_remark_call(app_id, held[p][i], remark),
               <<i>>)

get_brief_single(p) ==
    /\ pc[p] = "idle"
    /\ \E app_id \in Apps, i \in DOMAIN held[p] :
         Enter(p, "get_brief_single", [app_id |-> app_id, wxid |-> held[p][i]],
               get_brief_single_call(app_id, held[p][i]),
               <<i>>)

\* wxids: Vec<Wxid>, the identifiers the caller constructed (possibly none).
get_brief_list(p) ==
    /\ pc[p] = "idle"
    /\ \E app_id \in Apps :
         Enter(p, "get_brief_list", [app_id |-> app_id, wxids |-> held[p]],
               get_brief_list_call(app_id, held[p]),
               [k \in 1..Len(held[p]) |-> k])

\* The await resumes: the function returns what gewe_post_json made of the
\* round trip's outcome.
Resume(p, r) ==
    /\ pc[p] = "awaiting"
    /\ reply' = [reply EXCEPT ![p] = r]
    /\ result' = [result EXCEPT ![p] = contacts_api_return(gewe_post_json_result(r))]
    /\ pc' = [pc EXCEPT ![p] = "done"]
    /\ UNCHANGED <<held, src, rejected, op, args, sent>>

\* The round trip fails at the transport level.
transport_failure(p) ==
    \E cause \in TransportCauses : Resume(p, [kind |-> "failure", cause |-> cause])

\* The round trip completes with a response body.
response_received(p) ==
    \E text \in ResponseBodies : Resume(p, [kind |-> "body", text |-> text])

Next ==
    \E p \in Procs :
        \/ Wxid_construct(p)
        \/ fetch_contacts_list(p)
        \/ fetch_contacts_list_cache(p)
        \/ search_friend(p)
        \/ search_add(p)
        \/ delete_friend(p)
        \/ upload_phone_contacts(p)
        \/ set_friend_only_chat(p)
        \/ set_friend_remark(p)
        \/ get_brief_single(p)
        \/ get_brief_list(p)
        \/ transport_failure(p)
        \/ response_received(p)

Spec == Init /\ [][Next]_vars

(***************************************************************************)
(* Properties                                                              *)
(***************************************************************************)

\* The call has handed its request to the transport.
Issued(p) == pc[p] \in {"awaiting", "done"}

Request(p) == sent[p][1]

\* The "# Route" section of each function's documentation (for
\* set_friend_remark, the comment at the head of its body).
DocumentedRoute(o) ==
    CASE o = "fetch_contacts_list"       -> "/contacts/fetchContactsList"
      [] o = "fetch_contacts_list_cache" -> "/contacts/fetchContactsListCache"
      [] o = "search_friend"             -> "/contacts/search"
      [] o = "search_add"                -> "/contacts/search"
      [] o = "delete_friend"             -> "/contacts/deleteFriend"
      [] o = "upload_phone_contacts"     -> "/contacts/uploadPhoneAddressList"
      [] o = "set_friend_only_chat"      -> "/contacts/setFriendPermissions"
      [] o = "set_friend_remark"         -> "/contacts/setFriendRemark"
      [] o = "get_brief_single"          -> "/contacts/getBriefInfo"
      [] o = "get_brief_list"            -> "/contacts/getBriefInfo"

\* The JSON object each function is to send for arguments a.
ExpectedBody(o, a) ==
    CASE o = "fetch_contacts_list"       -> [appId |-> a.app_id]
      [] o = "fetch_contacts_list_cache" -> [appId |-> a.app_id]
      [] o = "search_friend" ->
           [appId |-> a.app_id, contactsInfo |-> a.keyword]
      [] o = "search_add" ->
           [appId |-> a.app_id, scene |-> a.scene, option |-> a.option,
            v3 |-> a.v3, v4 |-> a.v4, content |-> a.content]
      [] o = "delete_friend" ->
           [appId |-> a.app_id, wxid |-> a.wxid.inner]
      [] o = "upload_phone_contacts" ->
           [appId |-> a.app_id, phones |-> a.phones,
            opType |-> IF a.op = "Add" THEN 1 ELSE 2]
      [] o = "set_friend_only_chat" ->
           [appId |-> a.app_id, wxid |-> a.wxid.inner, onlyChat |-> a.only_chat]
      [] o = "set_friend_remark" ->
           [appId |-> a.app_id, wxid |-> a.wxid.inner, remark |-> a.remark]
      [] o = "get_brief_single" ->
           [appId |-> a.app_id, wxids |-> <<a.wxid.inner>>]
      [] o = "get_brief_list" ->
           [appId |-> a.app_id,
            wxids |-> [i \in 1..Len(a.wxids) |-> a.wxids[i].inner]]

\* C1: a call that has not reached its await has issued nothing; from the
\* await on, whatever the outcome of the round trip, it has issued exactly
\* one request, a POST to the function's route whose body is the payload
\* built from the call's arguments.
C1_ExactlyOneRequest ==
    \A p \in Procs :
        /\ ~Issued(p) => sent[p] = <<>>
        /\ Issued(p) =>
             /\ Len(sent[p]) = 1
             /\ Request(p) = [method |-> "POST",
                              route  |-> DocumentedRoute(op[p]),
                              body   |-> ExpectedBody(op[p], args[p])]

\* One call is over after a transport failure, the other after a parsed
\* response, and each has issued its single request.
C1_Witness ==
    \E p, q \in Procs :
        /\ pc[p] = "done" /\ reply[p].kind = "failure" /\ Len(sent[p]) = 1
        /\ op[p] = "fetch_contacts_list"
        /\ pc[q] = "done" /\ result[q].tag = "Ok" /\ Len(sent[q]) = 1
        /\ op[q] = "upload_phone_contacts" /\ Len(args[q].phones) = 2

\* C2: search_friend(app_id, keyword) posts to /contacts/search a body with
\* exactly the fields appId = app_id and contactsInfo = keyword, and returns
\* the parsed JSON value of a parseable response unchanged.
C2_SearchFriend ==
    \A p \in Procs :
        (op[p] = "search_friend" /\ Issued(p)) =>
            /\ Request(p).route = "/contacts/search"
            /\ DOMAIN Request(p).body = {"appId", "contactsInfo"}
            /\ Request(p).body.appId = args[p].app_id
            /\ Request(p).body.contactsInfo = args[p].keyword
            /\ (pc[p] = "done" /\ reply[p].kind = "body"
                  /\ ParseJson(reply[p].text).ok) =>
                   result[p] = Ok(ParseJson(reply[p].text).value)

\* search_friend with keyword "1234567" has returned the response
\* {"ret":200,...} to its caller.
C2_Witness ==
    \E p \in Procs :
        /\ op[p] = "search_friend" /\ pc[p] = "done"
        /\ args[p].keyword = "1234567"
        /\ reply[p] = [kind |-> "body", text |-> "{\"ret\":200,\"msg\":\"ok\"}"]
        /\ result[p].tag = "Ok" /\ result[p].value.ret = 200

\* C3: whenever the response body is parseable JSON the call returns Ok with
\* exactly the parsed value, whatever status the value embeds.
C3_ParseablePassThrough ==
    \A p \in Procs :
        (pc[p] = "done" /\ reply[p].kind = "body" /\ ParseJson(reply[p].text).ok) =>
            /\ result[p].tag = "Ok"
            /\ result[p].value = ParseJson(reply[p].text).value

\* delete_friend has returned a response embedding ret = 500 as a success,
\* another call one embedding ret = 200.
C3_Witness ==
    \E p, q \in Procs :
        /\ op[p] = "delete_friend" /\ pc[p] = "done"
        /\ reply[p] = [kind |-> "body", text |-> "{\"ret\":500,\"msg\":\"fail\"}"]
        /\ result[p].tag = "Ok" /\ result[p].value.ret = 500
        /\ pc[q] = "done" /\ result[q].tag = "Ok"
        /\ reply[q] = [kind |-> "body", text |-> "{\"ret\":200,\"msg\":\"ok\"}"]

\* C4: a round trip that fails at the transport level ends the call with a
\* transport error carrying the cause: not a panic, not a success value.
C4_TransportError ==
    \A p \in Procs :
        (pc[p] = "done" /\ reply[p].kind = "failure") =>
            /\ result[p].tag = "Err"
            /\ result[p].error = [kind |-> "Transport", cause |-> reply[p].cause]

\* fetch_contacts_list has ended after a timeout.
C4_Witness ==
    \E p \in Procs :
        /\ op[p] = "fetch_contacts_list" /\ pc[p] = "done"
        /\ reply[p] = [kind |-> "failure", cause |-> "timeout"]
        /\ result[p].tag = "Err"

\* C5: a completed round trip whose body is not valid JSON ends the call
\* with a decoding error, which is neither a transport error nor a success.
C5_DecodeError ==
    \A p \in Procs :
        (pc[p] = "done" /\ reply[p].kind = "body" /\ ~ParseJson(reply[p].text).ok) =>
            /\ result[p].tag = "Err"
            /\ result[p].error.kind = "Decode"
            /\ result[p].error.kind # "Transport"

\* fetch_contacts_list_cache has ended after an HTML body, another call
\* after an empty body.
C5_Witness ==
    \E p, q \in Procs :
        /\ op[p] = "fetch_contacts_list_cache" /\ pc[p] = "done"
        /\ reply[p] = [kind |-> "body", text |-> "<html>502 Bad Gateway</html>"]
        /\ result[p].tag = "Err"
        /\ pc[q] = "done" /\ reply[q] = [kind |-> "body", text |-> ""]

\* The functions that take identifiers.
IdentifierOps ==
    {"delete_friend", "set_friend_only_chat", "set_friend_remark",
     "get_brief_single", "get_brief_list"}

\* The identifier strings a request body carries.
BodyWxids(body) ==
    IF "wxid" \in DOMAIN body THEN <<body.wxid>>
    ELSE IF "wxids" \in DOMAIN body THEN body.wxids
    ELSE <<>>

\* C6: a string that does not match the identifier format is refused with a
\* validation error and no request is issued for it: every identifier a
\* caller holds was built from a matching string, a refused construction
\* leaves the caller with a validation error and nothing sent, and every
\* identifier in a request of an identifier-taking function matches the
\* format.
C6_OnlyValidatedIdentifiers ==
    \A p \in Procs :
        /\ \A i \in DOMAIN src[p] : WxidFormat(src[p][i])
        /\ pc[p] = "invalid" =>
             /\ result[p] = Err([kind |-> "Validation"])
             /\ sent[p] = <<>>
        /\ (Issued(p) /\ op[p] \in IdentifierOps) =>
             \A i \in DOMAIN BodyWxids(Request(p).body) :
                 WxidFormat(BodyWxids(Request(p).body)[i])

\* One caller was refused a malformed string and has sent nothing, while
\* get_brief_list has issued a request with two identifiers.
C6_Witness ==
    \E p, q \in Procs :
        /\ pc[p] = "invalid" /\ ~WxidFormat(rejected[p]) /\ Len(rejected[p]) > 0
        /\ Len(src[p]) = 1
        /\ op[q] = "get_brief_list" /\ Issued(q)
        /\ Len(Request(q).body.wxids) = 2

\* C7: a matching string is never refused, the identifier built from it has
\* that very string as its representation, and the string embedded in a
\* request (wxid, wxids) is the one the caller supplied, character for
\* character.
C7_RoundTrip ==
    \A p \in Procs :
        /\ pc[p] = "invalid" => ~WxidFormat(rejected[p])
        /\ \A i \in DOMAIN held[p] : Wxid_as_str(held[p][i]) = src[p][i]
        /\ (Issued(p) /\ op[p] \in IdentifierOps) =>
             BodyWxids(Request(p).body) = src[p]

\* set_friend_only_chat has sent an identifier of mixed case.
C7_Witness ==
    \E p \in Procs :
        /\ op[p] = "set_friend_only_chat" /\ Issued(p)
        /\ src[p] = <<WxidPrefix \o <<"Z", "b">>>>
        /\ Request(p).body.wxid = WxidPrefix \o <<"Z", "b">>

\* C8 as stated: two calls of distinct public functions never post to the
\* same route.
C8_DistinctRoutes ==
    \A p, q \in Procs :
        (Issued(p) /\ Issued(q) /\ op[p] # op[q]) =>
            Request(p).route # Request(q).route

\* The pairs of functions that post to one route.
SharedRoutePairs ==
    { {"search_friend", "search_add"}, {"get_brief_single", "get_brief_list"} }

\* C8, amended: every function posts to one fixed route, and two distinct
\* functions post to distinct routes unless they are search_friend and
\* search_add (both /contacts/search) or get_brief_single and get_brief_list
\* (both /contacts/getBriefInfo).
C8_RoutesDistinctButTwoPairs ==
    \A p, q \in Procs :
        (Issued(p) /\ Issued(q)) =>
            /\ op[p] = op[q] => Request(p).route = Request(q).route
            /\ (op[p] # op[q] /\ Request(p).route = Request(q).route) =>
                   {op[p], op[q]} \in SharedRoutePairs
            /\ {op[p], op[q]} \in SharedRoutePairs =>
                   Request(p).route = Request(q).route

\* search_friend and search_add are both in flight, on the same route.
C8_Witness ==
    \E p, q \in Procs :
        /\ op[p] = "search_friend" /\ op[q] = "search_add"
        /\ Issued(p) /\ Issued(q)
        /\ Request(p).route = Request(q).route

\* Everything the model holds about one call.
CallState(p) ==
    <<pc[p], held[p], src[p], rejected[p], op[p], args[p], sent[p], reply[p], result[p]>>

\* C9: calls share no state: every step is the step of one call and leaves
\* the request, the reply and the result of every other call as they were,
\* in every interleaving.
C9_Independent ==
    [][\E p \in Procs : \A q \in Procs \ {p} : CallState(q)' = CallState(q)]_vars

\* set_friend_remark was entered while fetch_contacts_list was suspended in
\* its round trip, and fetch_contacts_list has since returned.
C9_Witness ==
    \E p, q \in Procs :
        /\ op[p] = "fetch_contacts_list" /\ pc[p] = "done"
        /\ op[q] = "set_friend_remark" /\ pc[q] = "awaiting"

\* The request gewe_post_json issues for a call.
RequestOf(call) ==
    [method |-> "POST", route |-> call.route, body |-> RequestBody(call.payload)]

\* C10: get_brief_single(app_id, w) issues the request of
\* get_brief_list(app_id, [w]), a POST to /contacts/getBriefInfo with
\* wxids = [w]; get_brief_list sends the identifiers it was given, as many
\* and in the same order.
C10_BriefSingleIsListOfOne ==
    \A p \in Procs :
        /\ (op[p] = "get_brief_single" /\ Issued(p)) =>
             /\ Request(p) = RequestOf(get_brief_list_call(args[p].app_id, <<args[p].wxid>>))
             /\ Request(p).route = "/contacts/getBriefInfo"
             /\ Request(p).body.wxids = <<Wxid_as_str(args[p].wxid)>>
        /\ (op[p] = "get_brief_list" /\ Issued(p)) =>
             /\ Request(p).route = "/contacts/getBriefInfo"
             /\ Len(Request(p).body.wxids) = Len(args[p].wxids)
             /\ \A i \in DOMAIN args[p].wxids :
                    Request(p).body.wxids[i] = Wxid_as_str(args[p].wxids[i])

\* get_brief_list was called with the same identifier twice while
\* get_brief_single was called with one.
C10_Witness ==
    \E p, q \in Procs :
        /\ op[p] = "get_brief_list" /\ Issued(p)
        /\ Len(args[p].wxids) = 2 /\ args[p].wxids[1] = args[p].wxids[2]
        /\ Len(Request(p).body.wxids) = 2
        /\ op[q] = "get_brief_single" /\ Issued(q)

====
